---- MODULE Spec2Model ----
(***************************************************************************)
(* Kerberos 5 decoders of src/src/krb5_parser.rs, modelled at the byte     *)
(* level.  A buffer is a sequence of bytes 0..255.  Every parser is an     *)
(* operator from a buffer to a nom 3 IResult:                              *)
(*   Done(rem, out)   the value and the unconsumed rest of the buffer      *)
(*   Error(e, cause)  nom ErrorKind e; cause is the error value a map_res! *)
(*                    closure returned ("-" when there is none)            *)
(*   Incomplete       the buffer ended too early                           *)
(* The nom / der_parser combinators the source is written with are         *)
(* modelled by the operators of the first sections (nom 3.x, der-parser    *)
(* 0.5.x, the versions whose API the source uses).                         *)
(*                                                                         *)
(* TLC's integers are 32 bit signed, so an i32 is computed as a word of    *)
(* four bytes (shift and or, as the source does) and converted at the end, *)
(* and a u32 is the pair <<hi, lo>> of its 16 bit halves.                  *)
(***************************************************************************)
EXTENDS Integers, Sequences, FiniteSets, TLC

\* input:   the buffer handed to the decoder
\* msg:     what the buffer was encoded from
\* decoder: the decoder the caller applies to the buffer
\* pc:      "call" before the decoder has run, "done" after
\* result:  the decoder's IResult
VARIABLES input, msg, decoder, pc, result

vars == <<input, msg, decoder, pc, result>>

\* ------------------------------------------------------------ IResult

Done(rem, out) == [k |-> "Done", rem |-> rem, out |-> out]

Error(e, cause) == [k |-> "Error", e |-> e, cause |-> cause]

Incomplete == [k |-> "Incomplete"]

IsDone(r) == r.k = "Done"

\* Option<T>: None is the empty sequence, Some(x) the sequence <<x>>.
None == <<>>

Some(x) == <<x>>

Drop(i, n) == SubSeq(i, n + 1, Len(i))

Take(i, n) == SubSeq(i, 1, n)

\* ------------------------------------------------------------ nom 3

\* opt!: an Error of the child is None; an Incomplete is passed on.
opt(r, i) ==
    CASE r.k = "Done" -> Done(r.rem, Some(r.out))
      [] r.k = "Error" -> Done(i, None)
      [] OTHER -> r

\* complete!: an Incomplete of the child becomes Error(Complete).
complete(r) == IF r.k = "Incomplete" THEN Error("Complete", "-") ELSE r

\* eof!: succeeds on the empty buffer only.
eof(i) == IF Len(i) = 0 THEN Done(i, <<>>) ELSE Error("Eof", "-")

\* error_if!(cond, kind)
error_if(cond, kind, i) == IF cond THEN Error(kind, "-") ELSE Done(i, <<>>)

\* many0!: collects while the child succeeds; stops at the end of the buffer
\* or at the child's first Error; an Incomplete of the child is passed on.
RECURSIVE many0_loop(_, _, _)
many0_loop(P(_), i, acc) ==
    IF Len(i) = 0 THEN Done(i, acc)
    ELSE LET r == P(i) IN
         CASE r.k = "Error" -> Done(i, acc)
           [] r.k = "Incomplete" -> Incomplete
           [] OTHER -> IF Len(r.rem) = Len(i) THEN Error("Many0", "-")
                       ELSE many0_loop(P, r.rem, Append(acc, r.out))

many0(P(_), i) == many0_loop(P, i, <<>>)

\* many1!: as many0!, but the first application must succeed.
many1(P(_), i) ==
    LET r == P(i) IN
    CASE r.k = "Error" -> Error("Many1", "-")
      [] r.k = "Incomplete" -> Incomplete
      [] OTHER -> IF Len(r.rem) = Len(i) THEN Error("Many1", "-")
                  ELSE many0_loop(P, r.rem, <<r.out>>)

\* map_res!: the closure's Err is replaced by ErrorKind::MapRes; the model
\* keeps the closure's error value as the cause.  A closure result is
\* [ok |-> TRUE, v |-> value] or [ok |-> FALSE, err |-> error].
Ok(v) == [ok |-> TRUE, v |-> v]

Err(e) == [ok |-> FALSE, err |-> e]

map_res(r, F(_)) ==
    IF r.k # "Done" THEN r
    ELSE LET c == F(r.out) IN
         IF c.ok THEN Done(r.rem, c.v) ELSE Error("MapRes", c.err)

\* ------------------------------------------------------------ der_parser

\* Universal tag numbers (der_parser::DerTag).
TagInteger == 2

TagBitString == 3

TagOctetString == 4

TagSequence == 16

TagGeneralizedTime == 24

TagGeneralString == 27

\* Big-endian value of a buffer of length bytes (the buffers of the model
\* keep lengths below 2^16).
RECURSIVE bytes_to_len(_)
bytes_to_len(b) ==
    IF Len(b) = 0 THEN 0 ELSE bytes_to_len(Take(b, Len(b) - 1)) * 256 + b[Len(b)]

\* der_read_element_header: identifier byte (class: 2 bits, constructed:
\* 1 bit, tag number: 5 bits), then the length in short or long form.
der_read_element_header(i) ==
    IF Len(i) < 2 THEN Incomplete
    ELSE LET b == i[1]
             l == i[2]
             n == l - 128
         IN IF l < 128
            THEN Done(Drop(i, 2), [class |-> b \div 64, structured |-> (b \div 32) % 2,
                                   tag |-> b % 32, len |-> l])
            ELSE IF Len(i) < 2 + n THEN Incomplete
            ELSE Done(Drop(i, 2 + n), [class |-> b \div 64, structured |-> (b \div 32) % 2,
                                       tag |-> b % 32, len |-> bytes_to_len(SubSeq(i, 3, 2 + n))])

\* take!(len) that hands out the bytes there are when the buffer holds fewer
\* than len.
take_available(len, i) ==
    IF Len(i) < len THEN Done(<<>>, i) ELSE Done(Drop(i, len), Take(i, len))

\* take!(len): the next len bytes; Incomplete when the buffer holds fewer.
take(len, i) == IF Len(i) < len THEN Incomplete ELSE Done(Drop(i, len), Take(i, len))

\* flat_take!(len, child): the child parses exactly the next len bytes; what
\* it leaves of them is dropped, the rest of the buffer follows them.
flat_take(len, P(_), i) ==
    LET t == take(len, i) IN
    IF t.k # "Done" THEN t
    ELSE LET r == P(t.out) IN
         IF r.k = "Done" THEN Done(t.rem, r.out) ELSE r

\* parse_der_struct!(fields) without TAG: any constructed element, its tag
\* and class unchecked; yields the header and the fields' value.
parse_der_struct(P(_), i) ==
    LET h == der_read_element_header(i) IN
    IF h.k # "Done" THEN h
    ELSE IF h.out.structured # 1 THEN Error("Verify", "-")
    ELSE LET r == flat_take(h.out.len, P, h.rem) IN
         IF r.k = "Done" THEN Done(r.rem, [hdr |-> h.out, res |-> r.out]) ELSE r

\* parse_der_application!(APPLICATION tag, fields): class APPLICATION and the
\* tag number are verified.
parse_der_application(tag, P(_), i) ==
    LET h == der_read_element_header(i) IN
    IF h.k # "Done" THEN h
    ELSE IF ~(h.out.class = 1 /\ h.out.tag = tag) THEN Error("Verify", "-")
    ELSE LET r == flat_take(h.out.len, P, h.rem) IN
         IF r.k = "Done" THEN Done(r.rem, [hdr |-> h.out, res |-> r.out]) ELSE r

\* parse_der_tagged!(EXPLICIT tag, child) (EXPLICIT is the default): the
\* header's tag number is checked, then the child parses what follows.
parse_der_tagged(tag, P(_), i) ==
    LET h == der_read_element_header(i) IN
    IF h.k # "Done" THEN h
    ELSE IF h.out.tag # tag THEN Error("DerTagError", "-")
    ELSE P(h.rem)

\* A primitive parser of der_parser (parse_der_integer, parse_der_octetstring,
\* parse_der_generalstring, parse_der_generalizedtime): the tag number is
\* checked and the content bytes are taken.
parse_der_primitive(tag, i) ==
    LET h == der_read_element_header(i) IN
    IF h.k # "Done" THEN h
    ELSE IF h.out.tag # tag THEN Error("DerTagError", "-")
    ELSE IF Len(h.rem) < h.out.len THEN Incomplete
    ELSE Done(Drop(h.rem, h.out.len), [tag |-> tag, data |-> Take(h.rem, h.out.len)])

parse_der_integer(i) == parse_der_primitive(TagInteger, i)

parse_der_octetstring(i) == parse_der_primitive(TagOctetString, i)

parse_der_generalstring(i) == parse_der_primitive(TagGeneralString, i)

parse_der_generalizedtime(i) == parse_der_primitive(TagGeneralizedTime, i)

\* parse_der_bitstring: the first content byte counts the unused bits.
parse_der_bitstring(i) ==
    LET h == der_read_element_header(i) IN
    IF h.k # "Done" THEN h
    ELSE IF h.out.tag # TagBitString THEN Error("DerTagError", "-")
    ELSE IF h.out.len = 0 THEN Error("DerLengthError", "-")
    ELSE IF Len(h.rem) < h.out.len THEN Incomplete
    ELSE Done(Drop(h.rem, h.out.len),
              [tag |-> TagBitString, unused |-> h.rem[1],
               data |-> SubSeq(h.rem, 2, h.out.len)])

\* u32 values: the pair of the 16 bit halves.
U32(n) == <<n \div 65536, n % 65536>>

U32Le(a, b) == a[1] < b[1] \/ (a[1] = b[1] /\ a[2] <= b[2])

\* DerObject::as_u32 on an Integer: the content of 1 to 4 bytes read as an
\* unsigned big-endian number, any other length is IntegerTooLarge.
as_u32(x) ==
    LET c == x.data
        n == Len(c)
    IN CASE n = 1 -> Ok(<<0, c[1]>>)
         [] n = 2 -> Ok(<<0, c[1] * 256 + c[2]>>)
         [] n = 3 -> Ok(<<c[1], c[2] * 256 + c[3]>>)
         [] n = 4 -> Ok(<<c[1] * 256 + c[2], c[3] * 256 + c[4]>>)
         [] OTHER -> Err("IntegerTooLarge")

\* DerObject::as_slice on the object of a primitive parser.
as_slice(x) == Ok(x.data)

\* ------------------------------------------------------------ scalars

\* Bitwise or of two bytes.
RECURSIVE ByteOr(_, _)
ByteOr(a, b) ==
    IF a = 0 THEN b
    ELSE IF b = 0 THEN a
    ELSE 2 * ByteOr(a \div 2, b \div 2) + (IF a % 2 = 1 \/ b % 2 = 1 THEN 1 ELSE 0)

\* A 32 bit word is its four bytes, most significant first.
\* `b as i8 as i32`: sign extension of a byte.
SignExtend(b) == LET s == IF b >= 128 THEN 255 ELSE 0 IN <<s, s, s, b>>

\* `b as i32`: zero extension of a byte.
ZeroExtend(b) == <<0, 0, 0, b>>

\* `w << 8*k` on a 32 bit word.
Shl(w, k) == [j \in 1..4 |-> IF j + k <= 4 THEN w[j + k] ELSE 0]

\* `a | b` on 32 bit words.
WordOr(a, b) == [j \in 1..4 |-> ByteOr(a[j], b[j])]

\* The i32 a word stands for.
I32Value(w) ==
    (IF w[1] >= 128 THEN w[1] - 256 ELSE w[1]) * 16777216
        + w[2] * 65536 + w[3] * 256 + w[4]

\* The closure of parse_der_int32 with the first byte zero-extended instead
\* of sign-extended.
int32_closure_unsigned(x) ==
    LET c == x.data
        n == Len(c)
    IN CASE n = 1 -> Ok(I32Value(ZeroExtend(c[1])))
         [] n = 2 -> Ok(I32Value(WordOr(Shl(ZeroExtend(c[1]), 1), ZeroExtend(c[2]))))
         [] n = 3 -> Ok(I32Value(WordOr(WordOr(Shl(ZeroExtend(c[1]), 2),
                                               Shl(ZeroExtend(c[2]), 1)), ZeroExtend(c[3]))))
         [] n = 4 -> Ok(I32Value(WordOr(WordOr(WordOr(Shl(ZeroExtend(c[1]), 3),
                                                      Shl(ZeroExtend(c[2]), 2)),
                                               Shl(ZeroExtend(c[3]), 1)), ZeroExtend(c[4]))))
         [] OTHER -> Err("IntegerTooLarge")

\* The closure of parse_der_int32: by content length, the first byte
\* sign-extended and shifted, the others zero-extended, shifted and or-ed.
int32_closure(x) ==
    LET c == x.data
        n == Len(c)
    IN CASE n = 1 -> Ok(I32Value(SignExtend(c[1])))
         [] n = 2 -> Ok(I32Value(WordOr(Shl(SignExtend(c[1]), 1), ZeroExtend(c[2]))))
         [] n = 3 -> Ok(I32Value(WordOr(WordOr(Shl(SignExtend(c[1]), 2),
                                               Shl(ZeroExtend(c[2]), 1)), ZeroExtend(c[3]))))
         [] n = 4 -> Ok(I32Value(WordOr(WordOr(WordOr(Shl(SignExtend(c[1]), 3),
                                                      Shl(ZeroExtend(c[2]), 2)),
                                               Shl(ZeroExtend(c[3]), 1)), ZeroExtend(c[4]))))
         [] OTHER -> Err("IntegerTooLarge")

parse_der_int32(i) == map_res(parse_der_integer(i), int32_closure)

parse_der_uint32(i) == map_res(parse_der_integer(i), as_u32)

MaxMicroseconds == 999999

microseconds_closure(x) ==
    LET v == as_u32(x) IN
    IF ~v.ok THEN v
    ELSE IF U32Le(v.v, U32(MaxMicroseconds)) THEN Ok(v.v) ELSE Err("IntegerTooLarge")

parse_der_microseconds(i) == map_res(parse_der_integer(i), microseconds_closure)

\* ------------------------------------------------------------ strings

\* str::from_utf8: is the buffer well-formed UTF-8?
RECURSIVE from_utf8_ok(_)
from_utf8_ok(b) ==
    IF Len(b) = 0 THEN TRUE
    ELSE LET c == b[1]
             Cont(j) == j <= Len(b) /\ b[j] >= 128 /\ b[j] <= 191
         IN CASE c < 128 -> from_utf8_ok(Drop(b, 1))
              [] c >= 194 /\ c <= 223 -> Cont(2) /\ from_utf8_ok(Drop(b, 2))
              [] c >= 224 /\ c <= 239 ->
                    /\ Cont(2) /\ Cont(3)
                    /\ (c = 224 => b[2] >= 160)
                    /\ (c = 237 => b[2] <= 159)
                    /\ from_utf8_ok(Drop(b, 3))
              [] c >= 240 /\ c <= 244 ->
                    /\ Cont(2) /\ Cont(3) /\ Cont(4)
                    /\ (c = 240 => b[2] >= 144)
                    /\ (c = 244 => b[2] <= 143)
                    /\ from_utf8_ok(Drop(b, 4))
              [] OTHER -> FALSE

\* The closure of parse_kerberos_string; a String is kept as its bytes.
kerberos_string_closure(x) ==
    IF from_utf8_ok(x.data) THEN Ok(x.data) ELSE Err("not a valid UTF-8 string")

parse_kerberos_string(i) == map_res(parse_der_generalstring(i), kerberos_string_closure)

\* The closure every SEQUENCE decoder ends with: only the tag number of the
\* header is compared with DerTag::Sequence.
sequence_closure(x) ==
    IF x.hdr.tag # TagSequence THEN Err("not a sequence!") ELSE Ok(x.res)

kerberos_string_sequence_fields(i) == many0(parse_kerberos_string, i)

parse_kerberos_string_sequence(i) ==
    map_res(parse_der_struct(kerberos_string_sequence_fields, i), sequence_closure)

parse_kerberos_flags(i) == parse_der_bitstring(i)

parse_krb5_realm(i) == parse_kerberos_string(i)

parse_kerberos_time(i) == parse_der_generalizedtime(i)

\* ------------------------------------------------------------ do_parse!

\* do_parse!: the steps of the chain run one after the other, each on what
\* the one before it left; the first step that does not succeed is the
\* result.  Field(n, i, o) is step n on the buffer i, o the values of the
\* steps before it; the value of the chain is the list of the steps' values.
RECURSIVE do_parse_from(_, _, _, _, _)
do_parse_from(Field(_, _, _), count, n, i, o) ==
    IF n > count THEN Done(i, o)
    ELSE LET r == Field(n, i, o) IN
         IF r.k # "Done" THEN r
         ELSE do_parse_from(Field, count, n + 1, r.rem, Append(o, r.out))

do_parse(Field(_, _, _), count, i) == do_parse_from(Field, count, 1, i, <<>>)

\* The closing expression of a do_parse!: the struct built from the values.
value(r, V(_)) == IF r.k = "Done" THEN Done(r.rem, V(r.out)) ELSE r

\* ------------------------------------------------------------ compound fields

principalname_field(n, i, o) ==
    CASE n = 1 -> parse_der_tagged(0, parse_der_int32, i)
      [] OTHER -> parse_der_tagged(1, parse_kerberos_string_sequence, i)

principalname_value(o) == [name_type |-> o[1], name_string |-> o[2]]

principalname_fields(i) == value(do_parse(principalname_field, 2, i), principalname_value)

parse_krb5_principalname(i) ==
    map_res(parse_der_struct(principalname_fields, i), sequence_closure)

hostaddress_field(n, i, o) ==
    CASE n = 1 -> parse_der_tagged(0, parse_der_int32, i)
      [] OTHER -> map_res(parse_der_tagged(1, parse_der_octetstring, i), as_slice)

hostaddress_value(o) == [addr_type |-> o[1], address |-> o[2]]

hostaddress_fields(i) == value(do_parse(hostaddress_field, 2, i), hostaddress_value)

parse_krb5_hostaddress(i) ==
    map_res(parse_der_struct(hostaddress_fields, i), sequence_closure)

hostaddresses_fields(i) == many0(parse_krb5_hostaddress, i)

parse_krb5_hostaddresses(i) ==
    map_res(parse_der_struct(hostaddresses_fields, i), sequence_closure)

padata_field(n, i, o) ==
    CASE n = 1 -> parse_der_tagged(1, parse_der_int32, i)
      [] OTHER -> map_res(parse_der_tagged(2, parse_der_octetstring, i), as_slice)

padata_value(o) == [padata_type |-> o[1], padata_value |-> o[2]]

padata_fields(i) == value(do_parse(padata_field, 2, i), padata_value)

parse_krb5_padata(i) ==
    map_res(parse_der_struct(padata_fields, i), sequence_closure)

\* The list of PA-DATA read with many1! in the place of many0!.
padata_sequence_fields_many1(i) == many1(parse_krb5_padata, i)

\* many0!(parse_krb5_padata)
padata_sequence_fields(i) == many0(parse_krb5_padata, i)

parse_krb5_padata_sequence(i) ==
    map_res(parse_der_struct(padata_sequence_fields, i), sequence_closure)

\* IResult::map(|t| t.1): the value of a parse_der_struct! without its header.
map_value(r) == IF r.k = "Done" THEN Done(r.rem, r.out.res) ELSE r

\* The steps of parse_encrypted: etype, kvno, cipher, eof!().
encrypted_field(n, i, o) ==
    CASE n = 1 -> parse_der_tagged(0, parse_der_int32, i)
      [] n = 2 -> opt(parse_der_tagged(1, parse_der_uint32, i), i)
      [] n = 3 -> map_res(parse_der_tagged(2, parse_der_octetstring, i), as_slice)
      [] OTHER -> eof(i)

encrypted_value(o) == [etype |-> o[1], kvno |-> o[2], cipher |-> o[3]]

\* The steps of parse_encrypted without the closing eof!().
encrypted_fields_no_eof(i) == value(do_parse(encrypted_field, 3, i), encrypted_value)

encrypted_fields(i) == value(do_parse(encrypted_field, 4, i), encrypted_value)

parse_encrypted(i) == map_value(parse_der_struct(encrypted_fields, i))

\* ------------------------------------------------------------ parse_der

\* Universal tags whose content parse_der keeps as a byte slice.
SliceTags == {2, 3, 4, 12, 19, 20, 22, 27, 30}

\* Universal tags whose content parse_der decodes into something that is
\* not a byte slice.
TypedTags == {1, 5, 6, 10, 16, 17, 23, 24}

\* parse_der: any DER object.  The content of an object of class APPLICATION
\* or context-specific, and of a universal tag parse_der does not know, is
\* kept as is (Unknown); a SEQUENCE or SET is decoded object by object.
RECURSIVE parse_der(_)
parse_der(i) ==
    LET h == der_read_element_header(i) IN
    IF h.k # "Done" THEN h
    ELSE IF Len(h.rem) < h.out.len THEN Incomplete
    ELSE LET content == Take(h.rem, h.out.len)
             rest == Drop(h.rem, h.out.len)
         IN IF h.out.class \in {1, 2} \/ h.out.tag \notin (SliceTags \cup TypedTags)
            THEN Done(rest, [kind |-> "Unknown", data |-> content])
            ELSE IF h.out.tag \in SliceTags
            THEN IF h.out.tag = TagBitString /\ h.out.len = 0
                 THEN Error("DerLengthError", "-")
                 ELSE Done(rest, [kind |-> "Slice", data |-> content])
            ELSE IF h.out.tag \in {16, 17}
            THEN LET l == many0(parse_der, content) IN
                 IF l.k = "Done" THEN Done(rest, [kind |-> "Typed", data |-> <<>>]) ELSE l
            ELSE Done(rest, [kind |-> "Typed", data |-> <<>>])

\* DerObject::as_slice on an object of parse_der.
as_slice_of_object(x) == IF x.kind = "Typed" THEN Err("DerTypeError") ELSE Ok(x.data)

\* ------------------------------------------------------------ Ticket

\* The supported protocol version.
KrbVersion == 5

\* error_if!(no != 5, ..) with the test dropped.
ticket_vno_mismatch_never(no) == FALSE

\* error_if!(no != 5, ErrorKind::Tag)
ticket_vno_mismatch(no) == no # U32(KrbVersion)

\* The steps of parse_krb5_ticket: tkt-vno, its test, realm, sname, enc-part.
ticket_field(n, i, o) ==
    CASE n = 1 -> parse_der_tagged(0, parse_der_uint32, i)
      [] n = 2 -> error_if(ticket_vno_mismatch(o[1]), "Tag", i)
      [] n = 3 -> parse_der_tagged(1, parse_krb5_realm, i)
      [] n = 4 -> parse_der_tagged(2, parse_krb5_principalname, i)
      [] OTHER -> map_res(parse_der(i), as_slice_of_object)

ticket_value(o) == [tkt_vno |-> o[1], realm |-> o[3], sname |-> o[4], enc_part |-> o[5]]

ticket_fields(i) == value(do_parse(ticket_field, 5, i), ticket_value)

ticket_struct(i) == parse_der_struct(ticket_fields, i)

AppTicket == 1

parse_krb5_ticket(i) == map_value(map_value(parse_der_application(AppTicket, ticket_struct, i)))

\* ------------------------------------------------------------ KRB-ERROR

MsgTypeKrbError == 30

AppKrbError == 30

\* error_if!(pvno != 5, ErrorKind::Tag)
krb_error_pvno_mismatch(pvno) == pvno # U32(KrbVersion)

\* error_if!(msgtype != 30, ..) with the test dropped.
krb_error_msgtype_mismatch_never(msgtype) == FALSE

\* error_if!(msgtype != 30, ErrorKind::Tag)
krb_error_msgtype_mismatch(msgtype) == msgtype # U32(MsgTypeKrbError)

\* The steps of parse_krb_error: pvno and its test, msg-type and its test,
\* ctime, cusec, stime, susec, error-code, crealm, cname, realm, sname,
\* e-text, e-data; nothing follows them in the source.
krb_error_field(n, i, o) ==
    CASE n = 1 -> parse_der_tagged(0, parse_der_uint32, i)
      [] n = 2 -> error_if(krb_error_pvno_mismatch(o[1]), "Tag", i)
      [] n = 3 -> parse_der_tagged(1, parse_der_uint32, i)
      [] n = 4 -> error_if(krb_error_msgtype_mismatch(o[3]), "Tag", i)
      [] n = 5 -> opt(parse_der_tagged(2, parse_kerberos_time, i), i)
      [] n = 6 -> opt(parse_der_tagged(3, parse_der_microseconds, i), i)
      [] n = 7 -> parse_der_tagged(4, parse_kerberos_time, i)
      [] n = 8 -> parse_der_tagged(5, parse_der_microseconds, i)
      [] n = 9 -> parse_der_tagged(6, parse_der_int32, i)
      [] n = 10 -> opt(parse_der_tagged(7, parse_krb5_realm, i), i)
      [] n = 11 -> opt(parse_der_tagged(8, parse_krb5_principalname, i), i)
      [] n = 12 -> parse_der_tagged(9, parse_krb5_realm, i)
      [] n = 13 -> parse_der_tagged(10, parse_krb5_principalname, i)
      [] n = 14 -> opt(complete(parse_der_tagged(11, parse_kerberos_string, i)), i)
      [] OTHER -> opt(complete(parse_der_tagged(12, parse_der_octetstring, i)), i)

krb_error_value(o) ==
    [pvno |-> o[1], msg_type |-> o[3], ctime |-> o[5], cusec |-> o[6], stime |-> o[7],
     susec |-> o[8], error_code |-> o[9], crealm |-> o[10], cname |-> o[11],
     realm |-> o[12], sname |-> o[13], etext |-> o[14], edata |-> o[15]]

krb_error_fields(i) == value(do_parse(krb_error_field, 15, i), krb_error_value)

krb_error_struct(i) == parse_der_struct(krb_error_fields, i)

parse_krb_error(i) ==
    map_value(map_value(parse_der_application(AppKrbError, krb_error_struct, i)))

\* ------------------------------------------------------------ KDC-REQ-BODY

\* many1!(parse_der_int32) inside the parse_der_struct! of field 8.
etype_list(i) == many1(parse_der_int32, i)

etype_struct(i) == parse_der_struct(etype_list, i)

\* Field 9 with the complete! left out.
kdc_req_body_addresses_no_complete(i) ==
    opt(parse_der_tagged(9, parse_krb5_hostaddresses, i), i)

\* Field 9: opt!(complete!(parse_der_tagged!(9, parse_krb5_hostaddresses)))
kdc_req_body_addresses(i) ==
    opt(complete(parse_der_tagged(9, parse_krb5_hostaddresses, i)), i)

\* many1!(parse_krb5_ticket) inside the parse_der_struct! of field 11.
additional_tickets_list(i) == many1(parse_krb5_ticket, i)

additional_tickets_struct(i) == parse_der_struct(additional_tickets_list, i)

\* Option::unwrap_or(vec![])
unwrap_or_empty(o) == IF o = None THEN <<>> ELSE o[1]

\* The steps of parse_kdc_req_body: kdc-options, cname, realm, sname, from,
\* till, rtime, nonce, etype, addresses, enc-authorization-data,
\* additional-tickets, eof!().
kdc_req_body_field(n, i, o) ==
    CASE n = 1 -> parse_der_tagged(0, parse_kerberos_flags, i)
      [] n = 2 -> opt(parse_der_tagged(1, parse_krb5_principalname, i), i)
      [] n = 3 -> parse_der_tagged(2, parse_krb5_realm, i)
      [] n = 4 -> opt(parse_der_tagged(3, parse_krb5_principalname, i), i)
      [] n = 5 -> opt(parse_der_tagged(4, parse_kerberos_time, i), i)
      [] n = 6 -> parse_der_tagged(5, parse_kerberos_time, i)
      [] n = 7 -> opt(complete(parse_der_tagged(6, parse_kerberos_time, i)), i)
      [] n = 8 -> parse_der_tagged(7, parse_der_uint32, i)
      [] n = 9 -> parse_der_tagged(8, etype_struct, i)
      [] n = 10 -> kdc_req_body_addresses(i)
      [] n = 11 -> opt(complete(parse_der_tagged(10, parse_encrypted, i)), i)
      [] n = 12 -> opt(complete(parse_der_tagged(11, additional_tickets_struct, i)), i)
      [] OTHER -> eof(i)

kdc_req_body_value(o) ==
    [kdc_options |-> o[1], cname |-> o[2], realm |-> o[3], sname |-> o[4], from |-> o[5],
     till |-> o[6], rtime |-> o[7], nonce |-> o[8], etype |-> o[9].res,
     addresses |-> unwrap_or_empty(o[10]), enc_authorization_data |-> o[11],
     additional_tickets |-> IF o[12] = None THEN <<>> ELSE o[12][1].res]

kdc_req_body_fields(i) == value(do_parse(kdc_req_body_field, 13, i), kdc_req_body_value)

parse_kdc_req_body(i) == map_value(parse_der_struct(kdc_req_body_fields, i))

\* ------------------------------------------------------------ KDC-REQ

\* The steps of parse_kdc_req: pvno, msg-type, padata, req-body, eof!().
kdc_req_field(n, i, o) ==
    CASE n = 1 -> parse_der_tagged(1, parse_der_uint32, i)
      [] n = 2 -> parse_der_tagged(2, parse_der_uint32, i)
      [] n = 3 -> opt(parse_der_tagged(3, parse_krb5_padata_sequence, i), i)
      [] n = 4 -> parse_der_tagged(4, parse_kdc_req_body, i)
      [] OTHER -> eof(i)

kdc_req_value(o) ==
    [pvno |-> o[1], msg_type |-> o[2], padata |-> unwrap_or_empty(o[3]), req_body |-> o[4]]

kdc_req_fields(i) == value(do_parse(kdc_req_field, 5, i), kdc_req_value)

parse_kdc_req(i) == map_value(parse_der_struct(kdc_req_fields, i))

AppAsReq == 10

AppTgsReq == 12

parse_as_req(i) == map_value(parse_der_application(AppAsReq, parse_kdc_req, i))

parse_tgs_req(i) == map_value(parse_der_application(AppTgsReq, parse_kdc_req, i))

\* ------------------------------------------------------------ KDC-REP

\* The steps of parse_kdc_rep: pvno, msg-type, padata, crealm, cname, ticket,
\* enc-part, eof!().
kdc_rep_field(n, i, o) ==
    CASE n = 1 -> parse_der_tagged(0, parse_der_uint32, i)
      [] n = 2 -> parse_der_tagged(1, parse_der_uint32, i)
      [] n = 3 -> opt(parse_der_tagged(2, parse_krb5_padata_sequence, i), i)
      [] n = 4 -> parse_der_tagged(3, parse_krb5_realm, i)
      [] n = 5 -> parse_der_tagged(4, parse_krb5_principalname, i)
      [] n = 6 -> parse_der_tagged(5, parse_krb5_ticket, i)
      [] n = 7 -> parse_der_tagged(6, parse_encrypted, i)
      [] OTHER -> eof(i)

kdc_rep_value(o) ==
    [pvno |-> o[1], msg_type |-> o[2], padata |-> unwrap_or_empty(o[3]), crealm |-> o[4],
     cname |-> o[5], ticket |-> o[6], enc_part |-> o[7]]

kdc_rep_fields(i) == value(do_parse(kdc_rep_field, 8, i), kdc_rep_value)

parse_kdc_rep(i) == map_value(parse_der_struct(kdc_rep_fields, i))

AppAsRep == 11

AppTgsRep == 13

parse_as_rep(i) == map_value(parse_der_application(AppAsRep, parse_kdc_rep, i))

parse_tgs_rep(i) == map_value(parse_der_application(AppTgsRep, parse_kdc_rep, i))

\* ------------------------------------------------------------ encoding of inputs

\* The length octets of a DER element.
EncLen(n) ==
    IF n < 128 THEN <<n>>
    ELSE IF n < 256 THEN <<129, n>>
    ELSE <<130, n \div 256, n % 256>>

\* An element: identifier byte, length, content.
Tlv(id, content) == <<id>> \o EncLen(Len(content)) \o content

SeqsUpTo(S, n) == UNION {[1..k -> S] : k \in 0..n}

\* [n] EXPLICIT: a constructed context-specific element.
Ctx(n, inner) == Tlv(160 + n, inner)

\* [APPLICATION n]: a constructed application element.
App(n, inner) == Tlv(96 + n, inner)

\* A universal SEQUENCE.
EncSeq(content) == Tlv(48, content)

EncInt(c) == Tlv(TagInteger, c)

EncOctets(b) == Tlv(TagOctetString, b)

EncString(b) == Tlv(TagGeneralString, b)

EncTime(b) == Tlv(TagGeneralizedTime, b)

EncBits(b) == Tlv(TagBitString, b)

\* The concatenation of a sequence of buffers.
RECURSIVE Concat(_)
Concat(ss) == IF Len(ss) = 0 THEN <<>> ELSE ss[1] \o Concat(Tail(ss))

\* Well-formed values the well-formed parts of the inputs are encoded from.
GoodRealm == <<65>>

GoodPrincipal == [name_type |-> 1, name_string |-> <<(<<97>>), (<<98>>)>>]

GoodEncrypted == [etype |-> 18, kvno |-> None, cipher |-> <<222, 173>>]

GoodEncryptedKvno == [etype |-> 18, kvno |-> Some(U32(2)), cipher |-> <<222, 173>>]

\* PrincipalName ::= SEQUENCE { name-type [0] Int32, name-string [1] SEQUENCE OF KerberosString }
\* under the outer identifier byte id.
EncPrincipalNameAs(id, p) ==
    Tlv(id, Ctx(0, EncInt(<<p.name_type>>))
            \o Ctx(1, EncSeq(Concat([j \in 1..Len(p.name_string) |->
                                         EncString(p.name_string[j])]))))

EncPrincipalName(p) == EncPrincipalNameAs(48, p)

\* EncryptedData ::= SEQUENCE { etype [0] Int32, kvno [1] UInt32 OPTIONAL, cipher [2] OCTET STRING }
\* under the outer identifier byte id, followed inside the element by extra.
EncEncryptedAs(id, e, extra) ==
    Tlv(id, Ctx(0, EncInt(<<e.etype>>))
            \o (IF e.kvno = None THEN <<>> ELSE Ctx(1, EncInt(<<e.kvno[1][2]>>)))
            \o Ctx(2, EncOctets(e.cipher))
            \o extra)

EncEncrypted(e) == EncEncryptedAs(48, e, <<>>)

\* ------------------------------------------------------------ scalar inputs

\* Longest INTEGER content of the scalar inputs.
MaxIntLen == 5

\* The bytes the INTEGER contents are made of.
IntBytes == {0, 1, 128, 255}

\* Contents around the limit of Microseconds: 999999 = 0F 42 3F.
MicroContents ==
    {<<15, 66, 63>>, <<15, 66, 64>>, <<0, 15, 66, 63>>, <<0, 15, 66, 64>>,
     <<127, 255, 255, 255>>, <<128, 0, 0, 0>>, <<5>>, <<30>>}

IntContents == SeqsUpTo(IntBytes, MaxIntLen) \cup MicroContents

ScalarInputs ==
    {Tlv(TagInteger, c) : c \in IntContents}
        \cup {Tlv(TagOctetString, <<5>>), <<TagInteger>>, <<TagInteger, 2, 1>>, <<>>}

\* ------------------------------------------------------------ specification

NoResult == [k |-> "None"]

InitWith(inputs, decoders) ==
    /\ input \in inputs
    /\ msg = [t |-> "bytes"]
    /\ decoder \in decoders
    /\ pc = "call"
    /\ result = NoResult

\* One action per decoder: the call returns its result.
DoParseDerInt32 ==
    /\ pc = "call" /\ decoder = "parse_der_int32"
    /\ result' = parse_der_int32(input)
    /\ pc' = "done"
    /\ UNCHANGED <<input, msg, decoder>>

DoParseDerUint32 ==
    /\ pc = "call" /\ decoder = "parse_der_uint32"
    /\ result' = parse_der_uint32(input)
    /\ pc' = "done"
    /\ UNCHANGED <<input, msg, decoder>>

DoParseDerMicroseconds ==
    /\ pc = "call" /\ decoder = "parse_der_microseconds"
    /\ result' = parse_der_microseconds(input)
    /\ pc' = "done"
    /\ UNCHANGED <<input, msg, decoder>>

InitScalar ==
    InitWith(ScalarInputs, {"parse_der_int32", "parse_der_uint32", "parse_der_microseconds"})

NextScalar == DoParseDerInt32 \/ DoParseDerUint32 \/ DoParseDerMicroseconds

SpecScalar == InitScalar /\ [][NextScalar]_vars

\* Has decoder d returned?
Returned(d) == decoder = d /\ pc = "done"

\* ------------------------------------------------------------ Ticket inputs

\* tkt-vno: the contents of the INTEGER under [0]; "octets" puts an OCTET
\* STRING there.
TicketVnoContents ==
    {<<5>>, <<0, 5>>, <<0, 0, 0, 5>>, <<4>>, <<0>>, <<6>>, <<1, 5>>, <<5, 0>>,
     <<255, 255, 255, 251>>, <<0, 0, 0, 0, 5>>, <<>>}

TicketRealms == {"ok", "badutf8", "wrongtag", "missing"}

TicketSnames == {"ok", "octets", "missing"}

TicketEncParts == {"ok", "kvno", "tag2", "notenc", "bytes", "octets", "seq", "missing"}

TicketMsgs ==
    [t : {"ticket"}, app : {AppTicket, 2}, vno : TicketVnoContents,
     realm : TicketRealms, sname : TicketSnames, enc : TicketEncParts]

\* Ticket ::= [APPLICATION 1] SEQUENCE { tkt-vno [0] INTEGER (5), realm [1] Realm,
\*                                       sname [2] PrincipalName, enc-part [3] EncryptedData }
EncTicketRealm(k) ==
    CASE k = "ok" -> Ctx(1, EncString(GoodRealm))
      [] k = "badutf8" -> Ctx(1, EncString(<<255>>))
      [] k = "wrongtag" -> Ctx(4, EncString(GoodRealm))
      [] OTHER -> <<>>

EncTicketSname(k) ==
    CASE k = "ok" -> Ctx(2, EncPrincipalName(GoodPrincipal))
      [] k = "octets" -> Ctx(2, EncOctets(<<1>>))
      [] OTHER -> <<>>

EncTicketEncPart(k) ==
    CASE k = "ok" -> Ctx(3, EncEncrypted(GoodEncrypted))
      [] k = "kvno" -> Ctx(3, EncEncrypted(GoodEncryptedKvno))
      [] k = "tag2" -> Ctx(2, EncEncrypted(GoodEncrypted))
      [] k = "notenc" -> Ctx(3, EncOctets(<<1>>))
      [] k = "bytes" -> Ctx(3, <<255>>)
      [] k = "octets" -> EncOctets(<<1>>)
      [] k = "seq" -> EncSeq(<<>>)
      [] OTHER -> <<>>

EncTicket(m) ==
    App(m.app, EncSeq(Ctx(0, EncInt(m.vno)) \o EncTicketRealm(m.realm)
                   \o EncTicketSname(m.sname) \o EncTicketEncPart(m.enc)))

InitTicket ==
    /\ msg \in TicketMsgs
    /\ input = EncTicket(msg)
    /\ decoder = "parse_krb5_ticket"
    /\ pc = "call"
    /\ result = NoResult

DoParseKrb5Ticket ==
    /\ pc = "call" /\ decoder = "parse_krb5_ticket"
    /\ result' = parse_krb5_ticket(input)
    /\ pc' = "done"
    /\ UNCHANGED <<input, msg, decoder>>

NextTicket == DoParseKrb5Ticket

SpecTicket == InitTicket /\ [][NextTicket]_vars

\* ------------------------------------------------------------ KRB-ERROR inputs

KrbErrorPvnoContents == {<<5>>, <<0, 5>>, <<4>>, <<0>>}

KrbErrorMsgTypeContents == {<<30>>, <<0, 30>>, <<11>>, <<31>>}

\* Which of the optional fields 2, 3, 7, 8 are present.
KrbErrorOptionals == {"none", "all", "ctime", "cname"}

\* The mandatory fields 4 to 10: well-formed, or susec out of range, or
\* sname missing.
KrbErrorBodies == {"ok", "badsusec", "nosname"}

\* What follows field 10 inside the SEQUENCE.
KrbErrorTails ==
    {"none", "etext", "edata", "both", "swapped", "badetext", "badedata",
     "tag13", "byte", "etext_byte", "both_byte", "twice"}

KrbErrorMsgs ==
    [t : {"krb_error"}, pvno : KrbErrorPvnoContents, msgtype : KrbErrorMsgTypeContents,
     optionals : KrbErrorOptionals, body : KrbErrorBodies, tail : KrbErrorTails]

GoodTime == <<50, 48>>

GoodEtext == Ctx(11, EncString(<<101>>))

GoodEdata == Ctx(12, EncOctets(<<7>>))

EncKrbErrorTail(k) ==
    CASE k = "none" -> <<>>
      [] k = "etext" -> GoodEtext
      [] k = "edata" -> GoodEdata
      [] k = "both" -> GoodEtext \o GoodEdata
      [] k = "swapped" -> GoodEdata \o GoodEtext
      [] k = "badetext" -> Ctx(11, EncOctets(<<101>>))
      [] k = "badedata" -> Ctx(12, EncInt(<<7>>))
      [] k = "tag13" -> Ctx(13, EncOctets(<<7>>))
      [] k = "byte" -> <<0>>
      [] k = "etext_byte" -> GoodEtext \o <<0>>
      [] k = "both_byte" -> GoodEtext \o GoodEdata \o <<0>>
      [] OTHER -> GoodEtext \o GoodEtext

\* KRB-ERROR ::= [APPLICATION 30] SEQUENCE { pvno [0], msg-type [1], ctime [2] OPTIONAL,
\*   cusec [3] OPTIONAL, stime [4], susec [5], error-code [6], crealm [7] OPTIONAL,
\*   cname [8] OPTIONAL, realm [9], sname [10], e-text [11] OPTIONAL, e-data [12] OPTIONAL }
EncKrbError(m) ==
    App(AppKrbError, EncSeq(
        Ctx(0, EncInt(m.pvno)) \o Ctx(1, EncInt(m.msgtype))
        \o (IF m.optionals \in {"all", "ctime"} THEN Ctx(2, EncTime(GoodTime)) ELSE <<>>)
        \o (IF m.optionals = "all" THEN Ctx(3, EncInt(<<1, 0>>)) ELSE <<>>)
        \o Ctx(4, EncTime(GoodTime))
        \o Ctx(5, EncInt(IF m.body = "badsusec" THEN <<15, 66, 64>> ELSE <<2>>))
        \o Ctx(6, EncInt(<<255>>))
        \o (IF m.optionals = "all" THEN Ctx(7, EncString(GoodRealm)) ELSE <<>>)
        \o (IF m.optionals \in {"all", "cname"} THEN Ctx(8, EncPrincipalName(GoodPrincipal))
            ELSE <<>>)
        \o Ctx(9, EncString(GoodRealm))
        \o (IF m.body = "nosname" THEN <<>> ELSE Ctx(10, EncPrincipalName(GoodPrincipal)))
        \o EncKrbErrorTail(m.tail)))

InitKrbError ==
    /\ msg \in KrbErrorMsgs
    /\ input = EncKrbError(msg)
    /\ decoder = "parse_krb_error"
    /\ pc = "call"
    /\ result = NoResult

DoParseKrbError ==
    /\ pc = "call" /\ decoder = "parse_krb_error"
    /\ result' = parse_krb_error(input)
    /\ pc' = "done"
    /\ UNCHANGED <<input, msg, decoder>>

NextKrbError == DoParseKrbError

SpecKrbError == InitKrbError /\ [][NextKrbError]_vars

\* ------------------------------------------------------------ KDC inputs

\* Longest list the optional SEQUENCE OF fields of the inputs hold.
MaxList == 2

\* An optional SEQUENCE OF field: absent, present with n elements, or present
\* with something that is not the SEQUENCE OF.
ListFields ==
    {[k |-> "absent", n |-> 0], [k |-> "malformed", n |-> 0]} \cup [k : {"list"}, n : 0..MaxList]

Absent == [k |-> "absent", n |-> 0]

Empty == [k |-> "list", n |-> 0]

\* What follows the last field inside the SEQUENCE: nothing, one byte, or an
\* element under the next context tag.
Trailers == {"none", "byte", "next"}

KdcPvnoContents == {<<5>>, <<4>>}

\* The decoder each family of messages is given to.
KdcDecoder(t) ==
    CASE t = "encrypted" -> "parse_encrypted"
      [] t = "body" -> "parse_kdc_req_body"
      [] t = "req" -> "parse_kdc_req"
      [] OTHER -> "parse_kdc_rep"

\* opt: are the optional scalar fields present (kvno; cname, sname, from).
EncryptedMsgs ==
    [t : {"encrypted"}, app : {0}, pvno : {<<5>>}, padata : {Absent}, opt : BOOLEAN,
     rtime : {FALSE}, addr : {Absent}, ead : {"absent"}, atkts : {Absent}, trail : Trailers]

BodyMsgs ==
    [t : {"body"}, app : {0}, pvno : {<<5>>}, padata : {Absent}, opt : BOOLEAN,
     rtime : BOOLEAN, addr : ListFields, ead : {"absent", "ok", "malformed"},
     atkts : ListFields, trail : Trailers]

ReqMsgs ==
    [t : {"req"}, app : {0}, pvno : KdcPvnoContents, padata : ListFields, opt : {TRUE},
     rtime : {FALSE}, addr : {Absent, Empty}, ead : {"absent"},
     atkts : {Absent, Empty, [k |-> "list", n |-> 1]}, trail : Trailers]

RepMsgs ==
    [t : {"rep"}, app : {0}, pvno : KdcPvnoContents, padata : ListFields, opt : BOOLEAN,
     rtime : {FALSE}, addr : {Absent}, ead : {"absent"}, atkts : {Absent}, trail : Trailers]

KdcMsgs == EncryptedMsgs \cup BodyMsgs \cup ReqMsgs \cup RepMsgs

GoodHostAddress == EncSeq(Ctx(0, EncInt(<<2>>)) \o Ctx(1, EncOctets(<<10, 0, 0, 1>>)))

GoodPAData == EncSeq(Ctx(1, EncInt(<<2>>)) \o Ctx(2, EncOctets(<<1>>)))

GoodTicket ==
    EncTicket([t |-> "ticket", app |-> AppTicket, vno |-> <<5>>, realm |-> "ok",
               sname |-> "ok", enc |-> "ok"])

RECURSIVE Repeat(_, _)
Repeat(b, n) == IF n = 0 THEN <<>> ELSE b \o Repeat(b, n - 1)

\* An optional SEQUENCE OF field under the context tag.
EncList(tag, f, element) ==
    CASE f.k = "absent" -> <<>>
      [] f.k = "malformed" -> Ctx(tag, EncInt(<<1>>))
      [] OTHER -> Ctx(tag, EncSeq(Repeat(element, f.n)))

EncTrailer(k, next) ==
    CASE k = "none" -> <<>>
      [] k = "byte" -> <<0>>
      [] OTHER -> Ctx(next, EncInt(<<1>>))

EncEncryptedMsg(m) ==
    EncEncryptedAs(48, IF m.opt THEN GoodEncryptedKvno ELSE GoodEncrypted, EncTrailer(m.trail, 3))

\* KDC-REQ-BODY ::= SEQUENCE { kdc-options [0], cname [1] OPTIONAL, realm [2],
\*   sname [3] OPTIONAL, from [4] OPTIONAL, till [5], rtime [6] OPTIONAL, nonce [7],
\*   etype [8], addresses [9] OPTIONAL, enc-authorization-data [10] OPTIONAL,
\*   additional-tickets [11] OPTIONAL }
EncKdcReqBody(m) ==
    EncSeq(
        Ctx(0, EncBits(<<0, 64, 0, 0, 16>>))
        \o (IF m.opt THEN Ctx(1, EncPrincipalName(GoodPrincipal)) ELSE <<>>)
        \o Ctx(2, EncString(GoodRealm))
        \o (IF m.opt THEN Ctx(3, EncPrincipalName(GoodPrincipal)) ELSE <<>>)
        \o (IF m.opt THEN Ctx(4, EncTime(GoodTime)) ELSE <<>>)
        \o Ctx(5, EncTime(GoodTime))
        \o (IF m.rtime THEN Ctx(6, EncTime(GoodTime)) ELSE <<>>)
        \o Ctx(7, EncInt(<<1, 2>>))
        \o Ctx(8, EncSeq(EncInt(<<18>>) \o EncInt(<<23>>)))
        \o EncList(9, m.addr, GoodHostAddress)
        \o (CASE m.ead = "absent" -> <<>>
              [] m.ead = "ok" -> Ctx(10, EncEncrypted(GoodEncrypted))
              [] OTHER -> Ctx(10, EncEncryptedAs(48, GoodEncrypted, <<0>>)))
        \o EncList(11, m.atkts, GoodTicket)
        \o (IF m.t = "body" THEN EncTrailer(m.trail, 12) ELSE <<>>))

\* KDC-REQ ::= SEQUENCE { pvno [1], msg-type [2], padata [3] OPTIONAL, req-body [4] }
EncKdcReq(m) ==
    EncSeq(Ctx(1, EncInt(m.pvno)) \o Ctx(2, EncInt(<<10>>))
           \o EncList(3, m.padata, GoodPAData)
           \o Ctx(4, EncKdcReqBody(m))
           \o EncTrailer(m.trail, 5))

\* KDC-REP ::= SEQUENCE { pvno [0], msg-type [1], padata [2] OPTIONAL, crealm [3],
\*   cname [4], ticket [5], enc-part [6] }
EncKdcRep(m) ==
    EncSeq(Ctx(0, EncInt(m.pvno)) \o Ctx(1, EncInt(<<11>>))
           \o EncList(2, m.padata, GoodPAData)
           \o Ctx(3, EncString(GoodRealm))
           \o Ctx(4, EncPrincipalName(GoodPrincipal))
           \o Ctx(5, GoodTicket)
           \o Ctx(6, EncEncrypted(IF m.opt THEN GoodEncryptedKvno ELSE GoodEncrypted))
           \o EncTrailer(m.trail, 7))

EncKdcMsg(m) ==
    CASE m.t = "encrypted" -> EncEncryptedMsg(m)
      [] m.t = "body" -> EncKdcReqBody(m)
      [] m.t = "req" -> EncKdcReq(m)
      [] OTHER -> EncKdcRep(m)

InitKdc ==
    /\ msg \in KdcMsgs
    /\ input = EncKdcMsg(msg)
    /\ decoder = KdcDecoder(msg.t)
    /\ pc = "call"
    /\ result = NoResult

DoParseEncrypted ==
    /\ pc = "call" /\ decoder = "parse_encrypted"
    /\ result' = parse_encrypted(input)
    /\ pc' = "done"
    /\ UNCHANGED <<input, msg, decoder>>

DoParseKdcReqBody ==
    /\ pc = "call" /\ decoder = "parse_kdc_req_body"
    /\ result' = parse_kdc_req_body(input)
    /\ pc' = "done"
    /\ UNCHANGED <<input, msg, decoder>>

DoParseKdcReq ==
    /\ pc = "call" /\ decoder = "parse_kdc_req"
    /\ result' = parse_kdc_req(input)
    /\ pc' = "done"
    /\ UNCHANGED <<input, msg, decoder>>

DoParseKdcRep ==
    /\ pc = "call" /\ decoder = "parse_kdc_rep"
    /\ result' = parse_kdc_rep(input)
    /\ pc' = "done"
    /\ UNCHANGED <<input, msg, decoder>>

NextKdc ==
    \/ DoParseEncrypted
    \/ DoParseKdcReqBody
    \/ DoParseKdcReq
    \/ DoParseKdcRep

SpecKdc == InitKdc /\ [][NextKdc]_vars

\* ------------------------------------------------------------ compound inputs

\* The identifier byte of a universal constructed SEQUENCE (0x30).
IdSequence == 32 + TagSequence

\* Identifier bytes the outer element is encoded under: the universal
\* SEQUENCE, the constructed context-specific and application tags of number
\* 16 (0xB0, 0x70), the universal SET (0x31), the constructed context tag
\* [5] (0xA5) and the primitive universal tag of number 16 (0x10).
OuterIds == {IdSequence, 176, 112, 49, 165, 16}

CompoundDecoders ==
    {"parse_krb5_principalname", "parse_krb5_hostaddress", "parse_krb5_hostaddresses",
     "parse_encrypted", "parse_krb5_padata", "parse_krb5_padata_sequence"}

\* What the outer element holds: the whole value, the value with its list,
\* string or optional field empty or left out, or a value whose last field is
\* not the one the decoder reads.
CompoundContents == {"full", "short", "bad"}

CompoundMsgs ==
    [t : {"compound"}, d : CompoundDecoders, id : OuterIds, content : CompoundContents]

PrincipalNameContent(c) ==
    Ctx(0, EncInt(<<1>>))
    \o (CASE c = "full" -> Ctx(1, EncSeq(EncString(<<97>>) \o EncString(<<98>>)))
          [] c = "short" -> Ctx(1, EncSeq(<<>>))
          [] OTHER -> <<>>)

HostAddressContent(c) ==
    Ctx(0, EncInt(<<2>>))
    \o (CASE c = "full" -> Ctx(1, EncOctets(<<10, 0, 0, 1>>))
          [] c = "short" -> Ctx(1, EncOctets(<<>>))
          [] OTHER -> Ctx(1, EncInt(<<1>>)))

HostAddressesContent(c) ==
    CASE c = "full" -> Repeat(GoodHostAddress, MaxList)
      [] c = "short" -> <<>>
      [] OTHER -> GoodHostAddress \o EncInt(<<1>>)

EncryptedContent(c) ==
    Ctx(0, EncInt(<<18>>))
    \o (IF c = "full" THEN Ctx(1, EncInt(<<2>>)) ELSE <<>>)
    \o (IF c = "bad" THEN <<>> ELSE Ctx(2, EncOctets(<<222, 173>>)))

PADataContent(c) ==
    Ctx(1, EncInt(<<2>>))
    \o (CASE c = "full" -> Ctx(2, EncOctets(<<1>>))
          [] c = "short" -> Ctx(2, EncOctets(<<>>))
          [] OTHER -> Ctx(2, EncInt(<<1>>)))

PADataSequenceContent(c) ==
    CASE c = "full" -> Repeat(GoodPAData, MaxList)
      [] c = "short" -> <<>>
      [] OTHER -> GoodPAData \o EncInt(<<1>>)

CompoundContent(d, c) ==
    CASE d = "parse_krb5_principalname" -> PrincipalNameContent(c)
      [] d = "parse_krb5_hostaddress" -> HostAddressContent(c)
      [] d = "parse_krb5_hostaddresses" -> HostAddressesContent(c)
      [] d = "parse_encrypted" -> EncryptedContent(c)
      [] d = "parse_krb5_padata" -> PADataContent(c)
      [] OTHER -> PADataSequenceContent(c)

EncCompound(m) == Tlv(m.id, CompoundContent(m.d, m.content))

InitCompound ==
    /\ msg \in CompoundMsgs
    /\ input = EncCompound(msg)
    /\ decoder = msg.d
    /\ pc = "call"
    /\ result = NoResult

DoParseKrb5PrincipalName ==
    /\ pc = "call" /\ decoder = "parse_krb5_principalname"
    /\ result' = parse_krb5_principalname(input)
    /\ pc' = "done"
    /\ UNCHANGED <<input, msg, decoder>>

DoParseKrb5HostAddress ==
    /\ pc = "call" /\ decoder = "parse_krb5_hostaddress"
    /\ result' = parse_krb5_hostaddress(input)
    /\ pc' = "done"
    /\ UNCHANGED <<input, msg, decoder>>

DoParseKrb5HostAddresses ==
    /\ pc = "call" /\ decoder = "parse_krb5_hostaddresses"
    /\ result' = parse_krb5_hostaddresses(input)
    /\ pc' = "done"
    /\ UNCHANGED <<input, msg, decoder>>

DoParseKrb5PAData ==
    /\ pc = "call" /\ decoder = "parse_krb5_padata"
    /\ result' = parse_krb5_padata(input)
    /\ pc' = "done"
    /\ UNCHANGED <<input, msg, decoder>>

DoParseKrb5PADataSequence ==
    /\ pc = "call" /\ decoder = "parse_krb5_padata_sequence"
    /\ result' = parse_krb5_padata_sequence(input)
    /\ pc' = "done"
    /\ UNCHANGED <<input, msg, decoder>>

NextCompound ==
    \/ DoParseKrb5PrincipalName
    \/ DoParseKrb5HostAddress
    \/ DoParseKrb5HostAddresses
    \/ DoParseEncrypted
    \/ DoParseKrb5PAData
    \/ DoParseKrb5PADataSequence

SpecCompound == InitCompound /\ [][NextCompound]_vars

\* ------------------------------------------------------------ code inputs

\* The content of the DER INTEGER of a number, from its four bytes in
\* big-endian two's complement: a leading byte is left out while the rest
\* stands for the same number.
RECURSIVE DerMinimal(_)
DerMinimal(b) ==
    IF Len(b) > 1 /\ ((b[1] = 0 /\ b[2] < 128) \/ (b[1] = 255 /\ b[2] >= 128))
    THEN DerMinimal(Tail(b))
    ELSE b

\* The content of the DER INTEGER of an i32.
DerInt32(v) ==
    LET u == IF v < 0 THEN (v + 2147483647) + 1 ELSE v
        b1 == (u \div 16777216) + (IF v < 0 THEN 128 ELSE 0)
    IN DerMinimal(<<b1, (u \div 65536) % 256, (u \div 256) % 256, u % 256>>)

\* The content of the DER INTEGER of a u32 <<hi, lo>>: an INTEGER is signed,
\* so a number of 2^31 and more takes a leading zero byte.
DerUInt32(u) ==
    DerMinimal(<<0, u[1] \div 256, u[1] % 256, u[2] \div 256, u[2] % 256>>)

\* The values an i32 code (name_type, addr_type, etype, padata_type,
\* error_code) is replaced by.
Int32Codes == {0, 1, 18, 127, 128, 9999, 2147483647, -1, -128, -129, -2147483647 - 1}

\* The values a u32 code (msg_type of KDC-REQ and KDC-REP) is replaced by:
\* 0, 10, 9999, 2^31 - 1, 2^31 and 2^32 - 1.
UInt32Codes == {U32(0), U32(10), U32(9999), <<32767, 65535>>, <<32768, 0>>, <<65535, 65535>>}

\* The codes of the message the others are compared with.
BaseInt32Code == GoodEncrypted.etype

BaseUInt32Code == U32(10)

Int32CodeDecoders ==
    {"parse_krb5_principalname", "parse_krb5_hostaddress", "parse_encrypted",
     "parse_krb5_padata", "parse_kdc_req_body", "parse_krb_error"}

UInt32CodeDecoders == {"parse_kdc_req", "parse_kdc_rep"}

\* A well-formed value of decoder d whose code field holds code (an i32) or
\* ucode (a u32), by the type of the field.
CodeMsgs ==
    [t : {"code"}, d : Int32CodeDecoders, code : Int32Codes, ucode : {BaseUInt32Code}]
    \cup
    [t : {"code"}, d : UInt32CodeDecoders, code : {BaseInt32Code}, ucode : UInt32Codes]

\* A KDC-REQ-BODY of the mandatory fields whose etype list ends with the
\* content c.
EncCodeBody(c) ==
    EncSeq(Ctx(0, EncBits(<<0, 64, 0, 0, 16>>))
           \o Ctx(2, EncString(GoodRealm))
           \o Ctx(5, EncTime(GoodTime))
           \o Ctx(7, EncInt(<<1, 2>>))
           \o Ctx(8, EncSeq(EncInt(<<18>>) \o EncInt(c))))

EncCodeMsg(m) ==
    LET c == DerInt32(m.code)
        uc == DerUInt32(m.ucode)
    IN CASE m.d = "parse_krb5_principalname" ->
                EncSeq(Ctx(0, EncInt(c)) \o Ctx(1, EncSeq(EncString(<<97>>))))
         [] m.d = "parse_krb5_hostaddress" ->
                EncSeq(Ctx(0, EncInt(c)) \o Ctx(1, EncOctets(<<10, 0, 0, 1>>)))
         [] m.d = "parse_encrypted" ->
                EncSeq(Ctx(0, EncInt(c)) \o Ctx(2, EncOctets(<<222, 173>>)))
         [] m.d = "parse_krb5_padata" ->
                EncSeq(Ctx(1, EncInt(c)) \o Ctx(2, EncOctets(<<1>>)))
         [] m.d = "parse_kdc_req_body" -> EncCodeBody(c)
         [] m.d = "parse_krb_error" ->
                App(AppKrbError, EncSeq(
                    Ctx(0, EncInt(<<5>>)) \o Ctx(1, EncInt(<<30>>))
                    \o Ctx(4, EncTime(GoodTime)) \o Ctx(5, EncInt(<<2>>))
                    \o Ctx(6, EncInt(c))
                    \o Ctx(9, EncString(GoodRealm))
                    \o Ctx(10, EncPrincipalName(GoodPrincipal))))
         [] m.d = "parse_kdc_req" ->
                EncSeq(Ctx(1, EncInt(<<5>>)) \o Ctx(2, EncInt(uc))
                       \o Ctx(4, EncCodeBody(<<23>>)))
         [] OTHER ->
                EncSeq(Ctx(0, EncInt(<<5>>)) \o Ctx(1, EncInt(uc))
                       \o Ctx(3, EncString(GoodRealm))
                       \o Ctx(4, EncPrincipalName(GoodPrincipal))
                       \o Ctx(5, GoodTicket)
                       \o Ctx(6, EncEncrypted(GoodEncrypted)))

InitCode ==
    /\ msg \in CodeMsgs
    /\ input = EncCodeMsg(msg)
    /\ decoder = msg.d
    /\ pc = "call"
    /\ result = NoResult

NextCode ==
    \/ DoParseKrb5PrincipalName
    \/ DoParseKrb5HostAddress
    \/ DoParseEncrypted
    \/ DoParseKrb5PAData
    \/ DoParseKdcReqBody
    \/ DoParseKrbError
    \/ DoParseKdcReq
    \/ DoParseKdcRep

SpecCode == InitCode /\ [][NextCode]_vars

\* ------------------------------------------------------------ truncated inputs

MessageDecoders ==
    {"parse_krb5_ticket", "parse_as_req", "parse_tgs_req", "parse_as_rep", "parse_tgs_rep",
     "parse_krb_error"}

\* A field of a message: the bytes of its element (none when an OPTIONAL
\* field is left out) and whether the grammar makes it mandatory.
Mandatory(b) == [b |-> b, m |-> TRUE]

Optional(present, b) == [b |-> IF present THEN b ELSE <<>>, m |-> FALSE]

\* The KDC-REQ-BODY of a valid request: with every OPTIONAL field, or with
\* none.
ValidBody(full) ==
    [t |-> "req", app |-> 0, pvno |-> <<5>>, padata |-> Absent, opt |-> full, rtime |-> full,
     addr |-> IF full THEN [k |-> "list", n |-> 1] ELSE Absent,
     ead |-> IF full THEN "ok" ELSE "absent",
     atkts |-> IF full THEN [k |-> "list", n |-> 1] ELSE Absent,
     trail |-> "none"]

TicketFields ==
    <<Mandatory(Ctx(0, EncInt(<<5>>))),
      Mandatory(Ctx(1, EncString(GoodRealm))),
      Mandatory(Ctx(2, EncPrincipalName(GoodPrincipal))),
      Mandatory(Ctx(3, EncEncrypted(GoodEncrypted)))>>

KdcReqFields(msgtype, full) ==
    <<Mandatory(Ctx(1, EncInt(<<5>>))),
      Mandatory(Ctx(2, EncInt(<<msgtype>>))),
      Optional(full, Ctx(3, EncSeq(GoodPAData))),
      Mandatory(Ctx(4, EncKdcReqBody(ValidBody(full))))>>

KdcRepFields(msgtype, full) ==
    <<Mandatory(Ctx(0, EncInt(<<5>>))),
      Mandatory(Ctx(1, EncInt(<<msgtype>>))),
      Optional(full, Ctx(2, EncSeq(GoodPAData))),
      Mandatory(Ctx(3, EncString(GoodRealm))),
      Mandatory(Ctx(4, EncPrincipalName(GoodPrincipal))),
      Mandatory(Ctx(5, GoodTicket)),
      Mandatory(Ctx(6, EncEncrypted(IF full THEN GoodEncryptedKvno ELSE GoodEncrypted)))>>

KrbErrorFields(full) ==
    <<Mandatory(Ctx(0, EncInt(<<5>>))),
      Mandatory(Ctx(1, EncInt(<<MsgTypeKrbError>>))),
      Optional(full, Ctx(2, EncTime(GoodTime))),
      Optional(full, Ctx(3, EncInt(<<1, 0>>))),
      Mandatory(Ctx(4, EncTime(GoodTime))),
      Mandatory(Ctx(5, EncInt(<<2>>))),
      Mandatory(Ctx(6, EncInt(<<255>>))),
      Optional(full, Ctx(7, EncString(GoodRealm))),
      Optional(full, Ctx(8, EncPrincipalName(GoodPrincipal))),
      Mandatory(Ctx(9, EncString(GoodRealm))),
      Mandatory(Ctx(10, EncPrincipalName(GoodPrincipal))),
      Optional(full, GoodEtext),
      Optional(full, GoodEdata)>>

\* The fields of the valid message of decoder d and its APPLICATION tag.
MessageFields(d, full) ==
    CASE d = "parse_krb5_ticket" -> TicketFields
      [] d = "parse_as_req" -> KdcReqFields(AppAsReq, full)
      [] d = "parse_tgs_req" -> KdcReqFields(AppTgsReq, full)
      [] d = "parse_as_rep" -> KdcRepFields(AppAsRep, full)
      [] d = "parse_tgs_rep" -> KdcRepFields(AppTgsRep, full)
      [] OTHER -> KrbErrorFields(full)

MessageApp(d) ==
    CASE d = "parse_krb5_ticket" -> AppTicket
      [] d = "parse_as_req" -> AppAsReq
      [] d = "parse_tgs_req" -> AppTgsReq
      [] d = "parse_as_rep" -> AppAsRep
      [] d = "parse_tgs_rep" -> AppTgsRep
      [] OTHER -> AppKrbError

\* The bytes of the first n fields.
RECURSIVE FieldBytes(_, _)
FieldBytes(fs, n) == IF n = 0 THEN <<>> ELSE FieldBytes(fs, n - 1) \o fs[n].b

\* The valid encoding: [APPLICATION n] SEQUENCE { fields }.
ValidEncoding(d, full) ==
    LET fs == MessageFields(d, full) IN App(MessageApp(d), EncSeq(FieldBytes(fs, Len(fs))))

\* The length of the header (identifier and length octets) of an element.
HeaderLen(el) == IF el[2] < 128 THEN 2 ELSE 2 + (el[2] - 128)

\* The positions, in the valid encoding, of the content bytes of the
\* mandatory fields.
MandatoryContent(d, full) ==
    LET fs == MessageFields(d, full)
        outer == Len(ValidEncoding(d, full)) - Len(FieldBytes(fs, Len(fs)))
    IN UNION {(outer + Len(FieldBytes(fs, n - 1)) + HeaderLen(fs[n].b) + 1)
                  .. (outer + Len(FieldBytes(fs, n)))
              : n \in {j \in 1..Len(fs) : fs[j].m}}

\* The buffer without its byte at position k; position 0 removes nothing.
RemoveByte(b, k) == IF k = 0 THEN b ELSE Take(b, k - 1) \o Drop(b, k)

\* A valid message, whole (k = 0) or with the byte at position k, a content
\* byte of a mandatory field, removed.
TruncMsgs ==
    UNION {[t : {"trunc"}, d : {d}, full : {full}, k : {0} \cup MandatoryContent(d, full)]
           : d \in MessageDecoders, full \in BOOLEAN}

InitTrunc ==
    /\ msg \in TruncMsgs
    /\ input = RemoveByte(ValidEncoding(msg.d, msg.full), msg.k)
    /\ decoder = msg.d
    /\ pc = "call"
    /\ result = NoResult

DoParseAsReq ==
    /\ pc = "call" /\ decoder = "parse_as_req"
    /\ result' = parse_as_req(input)
    /\ pc' = "done"
    /\ UNCHANGED <<input, msg, decoder>>

DoParseTgsReq ==
    /\ pc = "call" /\ decoder = "parse_tgs_req"
    /\ result' = parse_tgs_req(input)
    /\ pc' = "done"
    /\ UNCHANGED <<input, msg, decoder>>

DoParseAsRep ==
    /\ pc = "call" /\ decoder = "parse_as_rep"
    /\ result' = parse_as_rep(input)
    /\ pc' = "done"
    /\ UNCHANGED <<input, msg, decoder>>

DoParseTgsRep ==
    /\ pc = "call" /\ decoder = "parse_tgs_rep"
    /\ result' = parse_tgs_rep(input)
    /\ pc' = "done"
    /\ UNCHANGED <<input, msg, decoder>>

NextTrunc ==
    \/ DoParseKrb5Ticket
    \/ DoParseAsReq
    \/ DoParseTgsReq
    \/ DoParseAsRep
    \/ DoParseTgsRep
    \/ DoParseKrbError

SpecTrunc == InitTrunc /\ [][NextTrunc]_vars

\* ------------------------------------------------------------ claims: scalars

\* The input is one INTEGER element (short length form) and nothing else.
IsIntegerElement(i) == Len(i) >= 2 /\ i[1] = TagInteger /\ i[2] = Len(i) - 2

IntegerContent(i) == Drop(i, 2)

\* The number a content stands for in big-endian two's complement (contents
\* of at most 4 bytes).
RECURSIVE UnsignedValue(_)
UnsignedValue(c) ==
    IF Len(c) = 0 THEN 0 ELSE UnsignedValue(Take(c, Len(c) - 1)) * 256 + c[Len(c)]

RECURSIVE Pow256(_)
Pow256(n) == IF n = 0 THEN 1 ELSE 256 * Pow256(n - 1)

TwosComplement(c) ==
    (IF c[1] >= 128 THEN c[1] - 256 ELSE c[1]) * Pow256(Len(c) - 1)
        + UnsignedValue(Drop(c, 1))

\* C4: parse_der_int32 of an INTEGER of 1 to 4 content bytes yields the
\* big-endian two's complement value of the content, sign-extended from its
\* first byte; of an INTEGER of 0 or of 5 and more content bytes it fails
\* with IntegerTooLarge.
C4_Int32 ==
    (Returned("parse_der_int32") /\ IsIntegerElement(input)) =>
        LET c == IntegerContent(input) IN
        IF Len(c) \in 1..4
        THEN result = Done(<<>>, TwosComplement(c))
        ELSE result.k = "Error" /\ result.cause = "IntegerTooLarge"

\* A negative four byte INTEGER has been decoded.
C4_Witness ==
    /\ Returned("parse_der_int32")
    /\ IsIntegerElement(input)
    /\ Len(IntegerContent(input)) = 4
    /\ IntegerContent(input)[1] >= 128
    /\ IsDone(result)
    /\ result.out < 0

\* C5: parse_der_microseconds yields the value of an INTEGER in 0..999999,
\* and fails with IntegerOutOfRange, an error other than IntegerTooLarge, on
\* a value of 1000000 and more and on a negative value.
C5_Microseconds ==
    (Returned("parse_der_microseconds") /\ IsIntegerElement(input)
        /\ Len(IntegerContent(input)) \in 1..4) =>
        LET v == TwosComplement(IntegerContent(input)) IN
        IF 0 <= v /\ v <= MaxMicroseconds
        THEN result = Done(<<>>, U32(v))
        ELSE result.k = "Error" /\ result.cause = "IntegerOutOfRange"

\* ------------------------------------------------------------ claims: Ticket

\* The contents of an INTEGER of 1 to 4 bytes that read 5 as a u32.
FiveContents == {<<5>>, <<0, 5>>, <<0, 0, 5>>, <<0, 0, 0, 5>>}

\* The tkt-vno of the encoded Ticket is reached and decodes as a u32.
TicketVnoDecodes == msg.app = AppTicket /\ Len(msg.vno) \in 1..4

\* The call failed with the failure of a version mismatch (ErrorKind::Tag).
VersionMismatch == result.k = "Error" /\ result.e = "Tag"

\* C1: parse_krb5_ticket fails with the version mismatch exactly when the
\* decoded tkt_vno is not 5, whatever the realm, sname and enc_part that
\* follow; a Ticket it returns has tkt_vno 5.
C1_TicketVersion ==
    Returned("parse_krb5_ticket") =>
        /\ VersionMismatch <=> (TicketVnoDecodes /\ msg.vno \notin FiveContents)
        /\ IsDone(result) => result.out.tkt_vno = U32(KrbVersion)

\* A Ticket of version 4, otherwise well-formed, has been refused, and so
\* has one whose other fields are malformed.
C1_Witness ==
    /\ Returned("parse_krb5_ticket")
    /\ msg.vno = <<4>>
    /\ msg.realm = "ok" /\ msg.sname = "ok" /\ msg.enc = "ok"
    /\ VersionMismatch

\* C8: a Ticket whose fourth field is not [3] wrapping a well-formed
\* EncryptedData fails to decode.
C8_TicketEncPart ==
    (Returned("parse_krb5_ticket") /\ msg.enc \notin {"ok", "kvno"}) => ~IsDone(result)

\* ------------------------------------------------------------ claims: KRB-ERROR

\* The contents of an INTEGER of 1 to 4 bytes that read 30 as a u32.
ThirtyContents == {<<30>>, <<0, 30>>, <<0, 0, 30>>, <<0, 0, 0, 30>>}

\* C2: parse_krb_error fails when pvno is not 5 or msg_type is not 30,
\* whatever the other fields; a KrbError it returns has pvno 5 and
\* msg_type 30.
C2_KrbErrorVersion ==
    Returned("parse_krb_error") =>
        /\ (msg.pvno \notin FiveContents \/ msg.msgtype \notin ThirtyContents)
               => ~IsDone(result)
        /\ IsDone(result) =>
               /\ result.out.pvno = U32(KrbVersion)
               /\ result.out.msg_type = U32(MsgTypeKrbError)

\* A KRB-ERROR of pvno 5 whose msg_type is 11 and whose other fields are all
\* well-formed has been refused.
C2_Witness ==
    /\ Returned("parse_krb_error")
    /\ msg.pvno = <<5>> /\ msg.msgtype = <<11>>
    /\ msg.optionals = "all" /\ msg.body = "ok" /\ msg.tail = "both"
    /\ VersionMismatch

\* The tails that are a well-formed e-text and / or e-data in ascending
\* order, or nothing.
WellFormedTails == {"none", "etext", "edata", "both"}

\* C6: parse_krb_error fails when the bytes after field 10 are not exactly a
\* well-formed field 11 and / or a well-formed field 12 in ascending order.
C6_KrbErrorExact ==
    (Returned("parse_krb_error") /\ msg.tail \notin WellFormedTails) => ~IsDone(result)

\* ------------------------------------------------------------ claims: KDC

\* C3: parse_kdc_req_body of a KDC-REQ-BODY whose fields 0 to 8 are
\* well-formed and whose content ends after field 8 succeeds, with no
\* addresses, no enc_authorization_data and no additional_tickets.
C3_BodyEndsAfterEtype ==
    (Returned("parse_kdc_req_body") /\ msg.addr = Absent /\ msg.ead = "absent"
        /\ msg.atkts = Absent /\ msg.trail = "none") =>
        /\ IsDone(result)
        /\ result.out.addresses = <<>>
        /\ result.out.enc_authorization_data = None
        /\ result.out.additional_tickets = <<>>

\* A body holding every field from 0 to 8, and nothing after the etype list,
\* has been decoded, and all of its input was read.
C3_Witness ==
    /\ Returned("parse_kdc_req_body")
    /\ msg.opt /\ msg.rtime
    /\ msg.addr = Absent /\ msg.ead = "absent" /\ msg.atkts = Absent /\ msg.trail = "none"
    /\ IsDone(result)
    /\ result.rem = <<>>
    /\ result.out.rtime # None
    /\ Len(result.out.etype) = 2
    /\ result.out.addresses = <<>>
    /\ result.out.additional_tickets = <<>>

\* The decoders whose chain of fields ends with eof!().
ExactDecoders == {"parse_encrypted", "parse_kdc_req", "parse_kdc_req_body", "parse_kdc_rep"}

\* Bytes are left inside the SEQUENCE after its last field: a trailer, or an
\* optional field at the end of the body that is present and malformed.
BytesLeftInside ==
    \/ msg.trail # "none"
    \/ /\ msg.t = "body"
       /\ (msg.addr.k = "malformed" \/ msg.ead = "malformed" \/ msg.atkts.k = "malformed")

\* C7: parse_encrypted, parse_kdc_req, parse_kdc_req_body and parse_kdc_rep
\* fail when bytes remain inside the SEQUENCE after its last field, a
\* present and malformed optional field at the end included.
C7_ExactlyConsumed ==
    (decoder \in ExactDecoders /\ pc = "done" /\ BytesLeftInside) => ~IsDone(result)

\* An EncryptedData with one more byte after its cipher has been refused by
\* the eof!() that closes the fields.
C7_Witness ==
    /\ Returned("parse_encrypted")
    /\ msg.t = "encrypted"
    /\ msg.trail = "byte"
    /\ result.k = "Error" /\ result.e = "Eof"

\* The result of the decoder on the encoding of m.
DecodeKdcMsg(m) ==
    CASE m.t = "encrypted" -> parse_encrypted(EncKdcMsg(m))
      [] m.t = "body" -> parse_kdc_req_body(EncKdcMsg(m))
      [] m.t = "req" -> parse_kdc_req(EncKdcMsg(m))
      [] OTHER -> parse_kdc_rep(EncKdcMsg(m))

WithoutPadata == [msg EXCEPT !.padata = Absent]

WithoutAddresses == [msg EXCEPT !.addr = Absent]

WithoutAdditionalTickets == [msg EXCEPT !.atkts = Absent]

\* The KdcReqBody of a decoded body or KDC-REQ.
BodyOf(r) == IF msg.t = "req" THEN r.out.req_body ELSE r.out

\* The message with an empty padata decodes as the one without padata does.
EmptyPadataAsAbsent ==
    (msg.padata = Empty /\ IsDone(DecodeKdcMsg(WithoutPadata))) =>
        /\ result = DecodeKdcMsg(WithoutPadata)
        /\ result.out.padata = <<>>

\* The message with empty addresses decodes as the one without addresses.
EmptyAddressesAsAbsent ==
    (msg.addr = Empty /\ IsDone(DecodeKdcMsg(WithoutAddresses))) =>
        /\ result = DecodeKdcMsg(WithoutAddresses)
        /\ BodyOf(result).addresses = <<>>

\* The message with empty additional-tickets decodes as the one without.
EmptyAdditionalTicketsAsAbsent ==
    (msg.atkts = Empty /\ IsDone(DecodeKdcMsg(WithoutAdditionalTickets))) =>
        /\ result = DecodeKdcMsg(WithoutAdditionalTickets)
        /\ BodyOf(result).additional_tickets = <<>>

\* C10 as stated: a message whose padata, addresses or additional_tickets
\* is present and empty decodes to the record of the same message without
\* the field, the field being the empty sequence.
C10_EmptyAsAbsent ==
    pc = "done" =>
        /\ EmptyPadataAsAbsent
        /\ EmptyAddressesAsAbsent
        /\ EmptyAdditionalTicketsAsAbsent

\* C10: a message whose padata or addresses is present and empty decodes to
\* the record of the same message without the field, the field being the
\* empty sequence; a message whose additional_tickets is present and empty
\* fails to decode.
C10_EmptyAsAbsentButTickets ==
    pc = "done" =>
        /\ EmptyPadataAsAbsent
        /\ EmptyAddressesAsAbsent
        /\ msg.atkts = Empty => ~IsDone(result)

\* A KDC-REQ with an empty padata and empty addresses has been decoded: both
\* come out as empty sequences.
C10_Witness ==
    /\ Returned("parse_kdc_req")
    /\ msg.padata = Empty /\ msg.addr = Empty /\ msg.atkts = Absent
    /\ IsDone(result)
    /\ result.out.padata = <<>>
    /\ result.out.req_body.addresses = <<>>
    /\ result = DecodeKdcMsg(WithoutPadata)
    /\ result = DecodeKdcMsg(WithoutAddresses)

\* ------------------------------------------------------------ claims: compound

\* C9: every compound decoder fails on an outer element whose identifier is
\* not the universal SEQUENCE, whatever its class and tag number.
C9_OuterSequence ==
    (decoder \in CompoundDecoders /\ pc = "done" /\ msg.id # IdSequence) => ~IsDone(result)

\* ------------------------------------------------------------ claims: pvno

\* C11: a record parse_kdc_req or parse_kdc_rep returns has pvno 5; a
\* message whose pvno is another value fails to decode.
C11_KdcPvno ==
    (decoder \in {"parse_kdc_req", "parse_kdc_rep"} /\ pc = "done" /\ IsDone(result)) =>
        result.out.pvno = U32(KrbVersion)

\* ------------------------------------------------------------ claims: codes

\* The decoder of message m applied to a buffer.
DecodeByCode(m, i) ==
    CASE m.d = "parse_krb5_principalname" -> parse_krb5_principalname(i)
      [] m.d = "parse_krb5_hostaddress" -> parse_krb5_hostaddress(i)
      [] m.d = "parse_encrypted" -> parse_encrypted(i)
      [] m.d = "parse_krb5_padata" -> parse_krb5_padata(i)
      [] m.d = "parse_kdc_req_body" -> parse_kdc_req_body(i)
      [] m.d = "parse_krb_error" -> parse_krb_error(i)
      [] m.d = "parse_kdc_req" -> parse_kdc_req(i)
      [] OTHER -> parse_kdc_rep(i)

\* The result on the message the code was replaced in.
BaseResult ==
    DecodeByCode(msg, EncCodeMsg([msg EXCEPT !.code = BaseInt32Code,
                                             !.ucode = BaseUInt32Code]))

\* The code field of a record of decoder d.
CodeOf(d, out) ==
    CASE d = "parse_krb5_principalname" -> out.name_type
      [] d = "parse_krb5_hostaddress" -> out.addr_type
      [] d = "parse_encrypted" -> out.etype
      [] d = "parse_krb5_padata" -> out.padata_type
      [] d = "parse_kdc_req_body" -> out.etype[2]
      [] d = "parse_krb_error" -> out.error_code
      [] OTHER -> out.msg_type

\* The record with its code field blanked: what is left are the other fields.
OtherFields(d, out) ==
    CASE d = "parse_krb5_principalname" -> [out EXCEPT !.name_type = 0]
      [] d = "parse_krb5_hostaddress" -> [out EXCEPT !.addr_type = 0]
      [] d = "parse_encrypted" -> [out EXCEPT !.etype = 0]
      [] d = "parse_krb5_padata" -> [out EXCEPT !.padata_type = 0]
      [] d = "parse_kdc_req_body" -> [out EXCEPT !.etype[2] = 0]
      [] d = "parse_krb_error" -> [out EXCEPT !.error_code = 0]
      [] OTHER -> [out EXCEPT !.msg_type = 0]

\* The code the message was encoded with.
CodeGiven == IF msg.d \in UInt32CodeDecoders THEN msg.ucode ELSE msg.code

\* The message decodes, its record carries the code it was encoded with and
\* the other fields of the message the code was replaced in.
CodeKept ==
    /\ IsDone(result)
    /\ CodeOf(msg.d, result.out) = CodeGiven
    /\ OtherFields(msg.d, result.out) = OtherFields(msg.d, BaseResult.out)

\* C12: a successfully decoded input whose open integer code is replaced by
\* another value of the field's integer type still decodes, to a record with
\* exactly that code and the other fields unchanged.
C12_OpenCodes == (msg.t = "code" /\ pc = "done" /\ IsDone(BaseResult)) => CodeKept

\* ------------------------------------------------------------ claims: truncation

\* C13: the valid encoding of a Ticket, AS-REQ, TGS-REQ, AS-REP, TGS-REP or
\* KRB-ERROR decodes, and the buffer left after one content byte of one of
\* its mandatory fields is removed never does.
C13_TruncatedFails ==
    (msg.t = "trunc" /\ pc = "done") => (IsDone(result) <=> msg.k = 0)

\* An AS-REQ with every optional field, one byte of its req-body removed,
\* has been refused as incomplete.
C13_Witness ==
    /\ Returned("parse_as_req")
    /\ msg.t = "trunc" /\ msg.full
    /\ msg.k = Len(input) + 1
    /\ Len(input) > 128
    /\ result = Incomplete

====
